---- MODULE Spec2Model ----
(***************************************************************************)
(* Model of gregtucker/bigantr_model: the run controller and output        *)
(* scheduler of LandlabModel (src/model_base.py), the parameter merger     *)
(* merge_user_and_default_params, the field accessor                       *)
(* get_or_create_node_field, and of BigantrLEM                             *)
(* (src/bigantr_lem/bigantr_lem.py): the parameter reads made while it is  *)
(* constructed and the statements of its update.                           *)
(*                                                                         *)
(* Times are Python numbers.  They are modelled as binary floating-point   *)
(* values with a Prec-bit significand, written as integer multiples of the *)
(* smallest quantum: every integer below 2^Prec is exact (as integer-valued*)
(* floats below 2^53 are), larger results are rounded to nearest, ties to  *)
(* even, as IEEE-754 arithmetic does.                                      *)
(***************************************************************************)
EXTENDS Integers, Sequences, FiniteSets, TLC

VARIABLES
    pc,             \* position of the control flow in run / update_until
    current_time,   \* self.current_time
    run_duration,   \* self.run_duration
    dt,             \* self.dt
    stop_time,      \* local stop_time of run
    next_pause,     \* local next_pause of run
    update_to_time, \* argument update_to_time of update_until
    udt,            \* local dt of update_until (reassigned by line 149)
    remaining_time, \* local remaining_time of update_until
    ret,            \* caller update_until returns to: "run" or "idle"
    plot_interval,  \* self.plot_interval
    next_plot,      \* self.next_plot
    save_interval,  \* self.save_interval
    next_save,      \* self.next_save
    has_next_report,\* whether the attribute self.next_report exists
    next_report,    \* self.next_report (meaningful when has_next_report)
    save_num,       \* self.save_num
    report_interval,\* the report trigger's interval (when has_next_report)
    log,            \* history: the hook calls made, <<kind, current_time>>
    upd,            \* history: the last update(step) call made by update_until
    entry,          \* history: current_time when run was entered
    head,           \* history: scheduler state at the previous test of run's loop
    heap,           \* the parameter dictionaries: object id -> dict
    pre,            \* history: heap before the last merge call
    call,           \* history: the last merge call, the defaults of the one
                    \* before it, and whether it raised
    ctor,           \* the constructor: its position, the exception that ended
                    \* it and the key that was missing, and self.grid
    uplift_rate,    \* self.uplift_rate
    lem,            \* history: the statements the last update executed, the
                    \* clock before it, and how router and eroder steps pair
    at_node,        \* grid.at_node: field name -> the array that is the field
    arrays,         \* the arrays allocated so far; an array's identity is its
                    \* index, its contents a dtype and one value per node
    handle,         \* the array a caller holds from its last
                    \* get_or_create_node_field call for a name, 0 when none
    got             \* history: the last get_or_create_node_field call, its
                    \* result, and the grid and the caller's handle before it

runvars == <<pc, current_time, run_duration, dt, stop_time, next_pause,
             update_to_time, udt, remaining_time, ret, plot_interval,
             next_plot, save_interval, next_save, has_next_report,
             next_report, report_interval, save_num, log, upd, entry, head>>
mergevars == <<heap, pre, call>>
ctorvars == <<ctor>>
lemvars == <<uplift_rate, lem>>
fieldvars == <<at_node, arrays, handle, got>>
notrun == <<mergevars, ctorvars, fieldvars>>
vars == <<runvars, mergevars, ctorvars, lemvars, fieldvars>>

----------------------------------------------------------------------------
(* Bounds *)

Prec == 3            \* bits of significand of the modelled floats
MaxLog == 4          \* hook calls recorded before the model stops a run
NumNodes == 2        \* grid.number_of_nodes

----------------------------------------------------------------------------
(* Floating-point arithmetic *)

RECURSIVE Pow2(_)
Pow2(k) == IF k = 0 THEN 1 ELSE 2 * Pow2(k - 1)

Abs(x) == IF x < 0 THEN -x ELSE x

RECURSIVE Quantum(_, _)
\* the spacing of representable values around magnitude n
Quantum(n, q) == IF n \div q < Pow2(Prec) THEN q ELSE Quantum(n, 2 * q)

\* round a non-negative exact value to the nearest representable one,
\* ties to the even significand
RoundMag(n) ==
    LET q  == Quantum(n, 1)
        m  == n \div q
        lo == m * q
        r  == n - lo
    IN  IF 2 * r < q THEN lo
        ELSE IF 2 * r > q THEN lo + q
        ELSE IF m % 2 = 0 THEN lo ELSE lo + q

Round(x) == IF x < 0 THEN -RoundMag(-x) ELSE RoundMag(x)

FAdd(a, b) == Round(a + b)
FSub(a, b) == Round(a - b)

Min(a, b) == IF a <= b THEN a ELSE b

----------------------------------------------------------------------------
(* Constructed models: the values setup_for_output and setup_run_control   *)
(* read from the parameters                                                *)

StartTimes == {0, 2}
Dts == {1, 3}
Intervals == {2, 5, 8}
Durations == {0, 3, 10, 16}
UntilTargets == {0, 5, 16}
UpliftRates == {0, 2}

NoUpdate == [called |-> FALSE, step |-> 0, dist |-> 0, dt |-> 0, from |-> 0]
NoHead == <<-1, -1, -1, -1>>
NoSteps == [was |-> 0, pending |-> 0, stale |-> FALSE, trace |-> << >>]

\* setup_for_output: the plot and save triggers start one interval after zero
InitOutput ==
    /\ plot_interval \in Intervals
    /\ next_plot = plot_interval
    /\ save_interval \in Intervals
    /\ next_save = save_interval
    /\ save_num = 0

\* setup_for_output assigns no next_report.  The attribute exists only when
\* the subclass that supplies report() also schedules it; it then starts at
\* one report interval.
InitReport ==
    /\ has_next_report \in BOOLEAN
    /\ report_interval \in (IF has_next_report THEN Intervals ELSE {0})
    /\ next_report = report_interval

\* setup_run_control
InitRunControl ==
    /\ run_duration \in Durations
    /\ dt \in Dts
    /\ current_time \in StartTimes

\* BigantrLEM.__init__: self.uplift_rate = params["baselevel"]["uplift_rate"]
InitBaselevel == uplift_rate \in UpliftRates

InitLocals ==
    /\ pc = "idle"
    /\ lem = NoSteps
    /\ stop_time = 0
    /\ next_pause = 0
    /\ update_to_time = 0
    /\ udt = 0
    /\ remaining_time = 0
    /\ ret = "idle"
    /\ log = << >>
    /\ upd = NoUpdate
    /\ entry = 0
    /\ head = NoHead

NoDicts == << >>

NoGet == [done |-> FALSE, name |-> "", ret |-> 0, held |-> 0,
          at |-> << >>, arrays |-> << >>]

\* the fields of the grid are not followed
InitNoFields ==
    /\ at_node = << >>
    /\ arrays = << >>
    /\ handle = << >>
    /\ got = NoGet

InitNoMerge ==
    /\ heap = NoDicts
    /\ pre = NoDicts
    /\ call = [u |-> 0, d |-> 0, prev |-> 0, err |-> FALSE, done |-> FALSE]

\* the state of a model whose constructor returned
Constructed == [pc |-> "constructed", key |-> "", grid |-> "created"]

Init ==
    /\ InitOutput /\ InitReport /\ InitRunControl /\ InitLocals /\ InitNoMerge
    /\ InitBaselevel
    /\ InitNoFields
    /\ ctor = Constructed

----------------------------------------------------------------------------
(* LandlabModel.update / BigantrLEM.update.  The values of the grid fields  *)
(* the external components compute are outside the model; what is kept of  *)
(* an update is the statements it executed, in order, with their argument, *)
(* and how the steps of the flow router and of the eroder pair up.         *)

\* line 124 adding the step twice
UpdateTwice(time, step) == FAdd(FAdd(time, step), step)

\* self.current_time += dt
Update(time, step) == FAdd(time, step)

\* lines 121-124 with the eroder run before the flow router
UpdateBodyErodeFirst == <<"uplift", "erode", "route", "clock">>

\* the statements of BigantrLEM.update, in the order of lines 121-124
UpdateBody == <<"uplift", "route", "erode", "clock">>

Done(st, op, arg) == Append(st.trace, [op |-> op, arg |-> arg])

\* one statement of update(step) executed in st = [time, pending, stale,
\* trace]: pending counts the router steps no eroder step has used yet,
\* stale tells that an eroder step ran with no router step pending
Statement(st, op, step) ==
    IF op = "uplift"
      THEN [st EXCEPT !.trace = Done(st, op, Round(uplift_rate * step))]
    ELSE IF op = "route"
      THEN [st EXCEPT !.pending = @ + 1, !.trace = Done(st, op, 0)]
    ELSE IF op = "erode"
      THEN [st EXCEPT !.stale = @ \/ st.pending = 0,
                      !.pending = IF @ > 0 THEN @ - 1 ELSE 0,
                      !.trace = Done(st, op, step)]
    ELSE [st EXCEPT !.time = Update(@, step), !.trace = Done(st, op, step)]

RECURSIVE Execute(_, _, _)
Execute(st, body, step) ==
    IF body = << >> THEN st
    ELSE Execute(Statement(st, Head(body), step), Tail(body), step)

\* BigantrLEM.update(step)
BigantrUpdate(time, steps, step) ==
    Execute([time |-> time, pending |-> steps.pending, stale |-> steps.stale,
             trace |-> << >>], UpdateBody, step)

\* update_until is entered: remaining_time = update_to_time - current_time
EnterUntil(target, step, caller) ==
    /\ update_to_time' = target
    /\ udt' = step
    /\ remaining_time' = FSub(target, current_time)
    /\ ret' = caller
    /\ upd' = [NoUpdate EXCEPT !.dt = step, !.from = current_time]
    /\ pc' = "until"

\* a direct call of the public method update_until(update_to_time, dt)
CallUpdateUntil ==
    /\ pc = "idle"
    /\ \E target \in UntilTargets, step \in Dts :
          EnterUntil(target, step, "idle")
    /\ UNCHANGED <<current_time, run_duration, dt, stop_time, next_pause,
                   plot_interval, next_plot, save_interval, next_save,
                   has_next_report, next_report, report_interval, save_num,
                   log, entry, head>>
    /\ UNCHANGED lemvars
    /\ UNCHANGED notrun

\* the step the loop of update_until takes: dt = min(dt, remaining_time)
ClampStep(step, remaining) == Min(step, remaining)

\* one pass of the while loop of update_until
UntilStep ==
    /\ pc = "until"
    /\ remaining_time > 0
    /\ LET step == ClampStep(udt, remaining_time)
       IN  /\ udt' = step
           /\ upd' = [upd EXCEPT !.called = TRUE, !.step = step,
                                 !.dist = update_to_time - current_time]
           /\ current_time' = BigantrUpdate(current_time, lem, step).time
           /\ lem' = LET st == BigantrUpdate(current_time, lem, step)
                      IN  [was |-> current_time, pending |-> st.pending,
                           stale |-> st.stale, trace |-> st.trace]
           /\ remaining_time' = FSub(remaining_time, step)
    /\ UNCHANGED <<pc, run_duration, dt, stop_time, next_pause, update_to_time,
                   ret, plot_interval, next_plot, save_interval, next_save,
                   has_next_report, next_report, report_interval, save_num,
                   log, entry, head>>
    /\ UNCHANGED uplift_rate
    /\ UNCHANGED notrun

\* the while loop of update_until ends and the method returns
UntilReturn ==
    /\ pc = "until"
    /\ ~(remaining_time > 0)
    /\ pc' = IF ret = "run" THEN "report" ELSE "idle"
    /\ UNCHANGED <<current_time, run_duration, dt, stop_time, next_pause,
                   update_to_time, udt, remaining_time, ret, plot_interval,
                   next_plot, save_interval, next_save, has_next_report,
                   next_report, report_interval, save_num, log, upd, entry,
                   head>>
    /\ UNCHANGED lemvars
    /\ UNCHANGED notrun

----------------------------------------------------------------------------
(* LandlabModel.run *)

SchedulerState == <<current_time, next_plot, next_save, next_report>>

\* run(): stop_time = run_duration + self.current_time
Run ==
    /\ pc = "idle"
    /\ stop_time' = FAdd(run_duration, current_time)
    /\ entry' = current_time
    /\ ret' = "run"
    /\ head' = NoHead
    /\ pc' = "while"
    /\ UNCHANGED <<current_time, run_duration, dt, next_pause, update_to_time,
                   udt, remaining_time, plot_interval, next_plot,
                   save_interval, next_save, has_next_report, next_report,
                   report_interval, save_num, log, upd>>
    /\ UNCHANGED lemvars
    /\ UNCHANGED notrun

\* while self.current_time < stop_time
RunTest ==
    /\ pc = "while"
    /\ pc' = IF current_time < stop_time THEN "pause" ELSE "done"
    /\ head' = IF current_time < stop_time THEN head ELSE NoHead
    /\ UNCHANGED <<current_time, run_duration, dt, stop_time, next_pause,
                   update_to_time, udt, remaining_time, ret, plot_interval,
                   next_plot, save_interval, next_save, has_next_report,
                   next_report, report_interval, save_num, log, upd, entry>>
    /\ UNCHANGED lemvars
    /\ UNCHANGED notrun

\* next_pause = min(next_plot, next_save, next_report)
NextPause == Min(Min(next_plot, next_save), next_report)

\* lines 166-168: reading a missing self.next_report raises AttributeError
RunPause ==
    /\ pc = "pause"
    /\ head' = SchedulerState
    /\ IF has_next_report
         THEN /\ next_pause' = NextPause
              /\ EnterUntil(NextPause, dt, "run")
         ELSE /\ pc' = "error"
              /\ UNCHANGED <<next_pause, update_to_time, udt, remaining_time,
                             ret, upd>>
    /\ UNCHANGED <<current_time, run_duration, dt, stop_time, plot_interval,
                   next_plot, save_interval, next_save, has_next_report,
                   next_report, report_interval, save_num, log, entry>>
    /\ UNCHANGED lemvars
    /\ UNCHANGED notrun

\* the test of lines 169, 171 and 174 with > in place of >=
DueStrictly(next) == current_time > next

\* self.current_time >= self.next_report (next_plot, next_save)
Due(next) == current_time >= next

Hook(kind) == Append(log, <<kind, current_time>>)

\* the report trigger's schedule after report() was called
ReportFired(next, interval) == next

\* lines 169-170
RunReport ==
    /\ pc = "report"
    /\ IF Due(next_report)
         THEN /\ Len(log) < MaxLog
              /\ log' = Hook("report")
              /\ next_report' = ReportFired(next_report, report_interval)
         ELSE UNCHANGED <<log, next_report>>
    /\ pc' = "plot"
    /\ UNCHANGED <<current_time, run_duration, dt, stop_time, next_pause,
                   update_to_time, udt, remaining_time, ret, plot_interval,
                   next_plot, save_interval, next_save, has_next_report,
                   report_interval, save_num, upd, entry, head>>
    /\ UNCHANGED lemvars
    /\ UNCHANGED notrun

\* the plot trigger's schedule after plot() was called
PlotFired(next, interval) == FAdd(next, interval)

\* lines 171-173
RunPlot ==
    /\ pc = "plot"
    /\ IF Due(next_plot)
         THEN /\ Len(log) < MaxLog
              /\ log' = Hook("plot")
              /\ next_plot' = PlotFired(next_plot, plot_interval)
         ELSE UNCHANGED <<log, next_plot>>
    /\ pc' = "save"
    /\ UNCHANGED <<current_time, run_duration, dt, stop_time, next_pause,
                   update_to_time, udt, remaining_time, ret, plot_interval,
                   save_interval, next_save, has_next_report, next_report,
                   report_interval, save_num, upd, entry, head>>
    /\ UNCHANGED lemvars
    /\ UNCHANGED notrun

\* the save trigger's schedule after save_state() was called
SaveFired(next, interval) == next

\* lines 174-176
RunSave ==
    /\ pc = "save"
    /\ IF Due(next_save)
         THEN /\ Len(log) < MaxLog
              /\ save_num' = save_num + 1
              /\ log' = Hook("save")
              /\ next_save' = SaveFired(next_save, save_interval)
         ELSE UNCHANGED <<log, save_num, next_save>>
    /\ pc' = "while"
    /\ UNCHANGED <<current_time, run_duration, dt, stop_time, next_pause,
                   update_to_time, udt, remaining_time, ret, plot_interval,
                   next_plot, save_interval, has_next_report, next_report,
                   report_interval, upd, entry, head>>
    /\ UNCHANGED lemvars
    /\ UNCHANGED notrun

Next ==
    \/ CallUpdateUntil
    \/ UntilStep
    \/ UntilReturn
    \/ Run
    \/ RunTest
    \/ RunPause
    \/ RunReport
    \/ RunPlot
    \/ RunSave

Spec == Init /\ [][Next]_vars

----------------------------------------------------------------------------
(* Parameter dictionaries.  A Python dict is an object: heap maps the id of *)
(* each dict to its contents, a function from its keys to values.  A value  *)
(* is a number, a list, or a reference to another dict.                     *)

Num(n) == [t |-> "int", v |-> n]
Lst(n) == [t |-> "list", v |-> n]
Ref(r) == [t |-> "ref", v |-> r]

\* isinstance(value, dict)
IsDict(value) == value.t = "ref"

Empty == << >>

\* ids of the dicts of the three trees: the user's, and two default trees
U == 1
Ud == 2
Ug == 3
Udd == 4
D1 == 5
D1d == 6
D1g == 7
D1dd == 8
D2 == 9
D2d == 10

\* the order in which a dict's keys are iterated
KeyOrder == <<"a", "d", "grid", "da", "db", "dd", "RasterModelGrid",
              "HexModelGrid", "x", "y">>

KeysOf(h, r) == SelectSeq(KeyOrder, LAMBDA k : k \in DOMAIN h[r])

\* dict[k] = value
Put(h, r, k, value) ==
    [h EXCEPT ![r] = [j \in DOMAIN h[r] \cup {k} |->
                          IF j = k THEN value ELSE h[r][j]]]

\* line 39 with the overwrite bug: the default is stored whether or not the
\* user has the key
TakesDefaultAlways(udict, k) == TRUE

\* line 39: k not in user_params.keys()
TakesDefault(udict, k) == k \notin DOMAIN udict

\* line 41 without the grid exception
RecursesIntoGrid(uvalue, k) == IsDict(uvalue)

\* line 41: isinstance(user_params[k], dict) and k != "grid"
Recurses(uvalue, k) == IsDict(uvalue) /\ k # "grid"

RECURSIVE MergeKeys(_, _, _, _)
\* the loop of merge_user_and_default_params over the keys ks of dict d that
\* are still to come; err: default_params.keys() raised AttributeError
\* because the default value is not a dict
MergeKeys(h, u, d, ks) ==
    IF ks = << >> THEN [heap |-> h, err |-> FALSE]
    ELSE LET k == Head(ks)
         IN  IF TakesDefault(h[u], k)
               THEN MergeKeys(Put(h, u, k, h[d][k]), u, d, Tail(ks))
             ELSE IF Recurses(h[u][k], k)
               THEN IF IsDict(h[d][k])
                      THEN LET r == MergeKeys(h, h[u][k].v, h[d][k].v,
                                              KeysOf(h, h[d][k].v))
                           IN  IF r.err THEN r
                               ELSE MergeKeys(r.heap, u, d, Tail(ks))
                      ELSE [heap |-> h, err |-> TRUE]
             ELSE MergeKeys(h, u, d, Tail(ks))

merge_user_and_default_params(h, u, d) == MergeKeys(h, u, d, KeysOf(h, d))

----------------------------------------------------------------------------
(* The dictionaries merges are tried on: a user tree and two default trees, *)
(* shaped like the doctest's                                                *)

Opt(k, values) == {Empty} \cup {k :> value : value \in values}

LeafDicts(ks, value) == {[k \in S |-> value] : S \in SUBSET ks}

NoObj == [root |-> Empty, objs |-> Empty]

Sub(k, r, dicts) == {[root |-> k :> Ref(r), objs |-> r :> c] : c \in dicts}

UserDd == {NoObj} \cup Sub("dd", Udd, {"x" :> Num(1)})
UserD ==
    {NoObj, [root |-> "d" :> Num(1), objs |-> Empty]}
    \cup {[root |-> "d" :> Ref(Ud), objs |-> (Ud :> (c @@ dd.root)) @@ dd.objs] :
            c \in LeafDicts({"da", "db"}, Num(4)), dd \in UserDd}
UserGrid == {NoObj} \cup Sub("grid", Ug, {"RasterModelGrid" :> Lst(1)})

UserTrees ==
    {(U :> (a @@ d.root @@ g.root)) @@ d.objs @@ g.objs :
        a \in Opt("a", {Num(1)}), d \in UserD, g \in UserGrid}

DefaultDd == {NoObj, [root |-> "dd" :> Num(6), objs |-> Empty]}
             \cup Sub("dd", D1dd, {"y" :> Num(6)})
DefaultD ==
    {NoObj, [root |-> "d" :> Num(2), objs |-> Empty]}
    \cup {[root |-> "d" :> Ref(D1d), objs |-> (D1d :> (c @@ dd.root)) @@ dd.objs] :
            c \in LeafDicts({"da", "db"}, Num(6)), dd \in DefaultDd}
DefaultGrid == {NoObj} \cup Sub("grid", D1g, {"HexModelGrid" :> Lst(2)})

DefaultTrees ==
    {(D1 :> (a @@ d.root @@ g.root)) @@ d.objs @@ g.objs :
        a \in Opt("a", {Num(2)}), d \in DefaultD, g \in DefaultGrid}

SecondDefaultTrees ==
    {D2 :> Empty, D2 :> ("a" :> Num(3))}
    \cup {(D2 :> ("d" :> Ref(D2d))) @@ (D2d :> c) :
            c \in {"db" :> Num(7), "x" :> Num(7)}}

Defaults == {D1, D2}

NoCall == [u |-> 0, d |-> 0, prev |-> 0, err |-> FALSE, done |-> FALSE]

\* a constructed model that is not run
InitNoRun ==
    /\ plot_interval = 2 /\ next_plot = 2
    /\ save_interval = 2 /\ next_save = 2
    /\ save_num = 0
    /\ has_next_report = FALSE /\ report_interval = 0 /\ next_report = 0
    /\ run_duration = 0 /\ dt = 1 /\ current_time = 0
    /\ uplift_rate = 0
    /\ InitLocals

InitMerge ==
    /\ InitNoRun
    /\ ctor = Constructed
    /\ \E ut \in UserTrees, dt1 \in DefaultTrees, dt2 \in SecondDefaultTrees :
          heap = ut @@ dt1 @@ dt2
    /\ pre = heap
    /\ call = NoCall
    /\ InitNoFields

\* a call merge_user_and_default_params(user_params, default_params)
Merge ==
    /\ \E d \in Defaults :
         LET r == merge_user_and_default_params(heap, U, d)
         IN  /\ heap' = r.heap
             /\ call' = [u |-> U, d |-> d, prev |-> call.d, err |-> r.err,
                          done |-> TRUE]
    /\ pre' = heap
    /\ UNCHANGED <<runvars, ctorvars, lemvars, fieldvars>>

NextMerge == Merge

SpecMerge == InitMerge /\ [][NextMerge]_vars

----------------------------------------------------------------------------
(* Construction: BigantrLEM.__init__(params), which runs                    *)
(* LandlabModel.__init__ and then reads its own sections.  params is the    *)
(* dict P of the heap.  A read of a missing key raises KeyError and ends    *)
(* the constructor.                                                         *)

Str(n) == [t |-> "str", v |-> n]
Grid(n) == [t |-> "grid", v |-> n]

\* the values of grid_params["source"] that setup_grid tells apart
SourceCreate == 1
SourceFile == 2
SourceGridObject == 3
SourceOther == 4

\* ids of params and of its sections
P == 11
Pgrid == 12
Pclock == 13
Poutput == 14
Pic == 15
Pbaselevel == 16
Pflow == 17
Pfluvial == 18

AllOf(ks, value) == [k \in ks |-> value]

\* the grid sections setup_grid is tried on
GridSections ==
    {("source" :> Str(SourceCreate)) @@ ("create_grid" :> Lst(0)),
     ("source" :> Str(SourceFile)) @@ ("grid_file_name" :> Str(0)),
     ("source" :> Str(SourceGridObject)) @@ ("grid_object" :> Grid(0)),
     ("source" :> Str(SourceGridObject)) @@ ("grid_object" :> Str(0)),
     "source" :> Str(SourceOther),
     Empty}

\* the keys setup_for_output reads, in the order it reads them
OutputKeys == <<"plot_interval", "save_interval", "ndigits", "save_name">>

\* the keys of the "output" section of BigantrLEM.DEFAULT_PARAMS
DefaultOutputKeys == {"plot_times", "save_times", "report_times", "save_path",
                      "clobber", "fields", "plot_to_file"}

OutputSections ==
    {("plot_interval" :> Num(2)) @@ ("save_interval" :> Num(5))
        @@ ("ndigits" :> Num(3)) @@ ("save_name" :> Str(0)),
     AllOf(DefaultOutputKeys, Num(0))}

\* the keys setup_run_control reads, in the order it reads them
RunControlKeys == <<"run_duration", "dt", "start_time">>

\* params holds the run-control keys, or the "clock" section of
\* DEFAULT_PARAMS, or neither
RunControls ==
    {NoObj,
     [root |-> ("run_duration" :> Num(10)) @@ ("dt" :> Num(1))
                 @@ ("start_time" :> Num(0)),
      objs |-> Empty]}
    \cup Sub("clock", Pclock, {AllOf({"start", "stop", "step"}, Num(0))})

FlowKeys == <<"flow_metric", "update_flow_depressions", "depression_handler",
              "epsilon">>

FluvialKeys == <<"intermittency_factor", "transport_coefficient",
                 "sediment_porosity", "depth_decay_scale",
                 "plucking_coefficient", "number_of_sediment_classes",
                 "init_thickness_per_class", "abrasion_coefficients",
                 "coarse_fractions_from_plucking", "rock_abrasion_index">>

Range(seq) == {seq[i] : i \in 1..Len(seq)}

Section(k, r, keys) == {NoObj} \cup Sub(k, r, {AllOf(keys, Num(0))})

\* the params dicts construction is tried on; the first is the empty dict
ParamTrees ==
    {(P :> (g.root @@ o.root @@ rc.root @@ ic.root @@ b.root @@ fl.root
              @@ fv.root))
        @@ g.objs @@ o.objs @@ rc.objs @@ ic.objs @@ b.objs @@ fl.objs
        @@ fv.objs :
        g \in {NoObj} \cup Sub("grid", Pgrid, GridSections),
        o \in {NoObj} \cup Sub("output", Poutput, OutputSections),
        rc \in RunControls,
        ic \in Section("initial_conditions", Pic,
                       {"initial_sed_thickness", "random_topo_amp"}),
        b \in {NoObj}
              \cup Sub("baselevel", Pbaselevel, {"uplift_rate" :> Num(2)}),
        fl \in Section("flow_routing", Pflow, Range(FlowKeys)),
        fv \in Section("fluvial", Pfluvial, Range(FluvialKeys))}

\* before __init__ has run no attribute of the model exists
InitUnbuilt ==
    /\ plot_interval = 0 /\ next_plot = 0
    /\ save_interval = 0 /\ next_save = 0
    /\ save_num = 0
    /\ has_next_report = FALSE /\ report_interval = 0 /\ next_report = 0
    /\ run_duration = 0 /\ dt = 0 /\ current_time = 0
    /\ uplift_rate = 0
    /\ InitLocals

InitCtor ==
    /\ InitUnbuilt
    /\ heap \in ParamTrees
    /\ pre = heap
    /\ call = NoCall
    /\ InitNoFields
    /\ ctor = [pc |-> "setup_grid", key |-> "", grid |-> "unset"]

\* the first key of ks that dict r lacks, "" when it has them all
FirstMissing(h, r, ks) ==
    LET missing == SelectSeq(ks, LAMBDA k : k \notin DOMAIN h[r])
    IN  IF missing = << >> THEN "" ELSE Head(missing)

Raise(exception, k) == [ctor EXCEPT !.pc = exception, !.key = k]

Goto(step) == [ctor EXCEPT !.pc = step]

\* line 117 without the type check: whatever is supplied is taken as the grid
IsGridUnchecked(value) == TRUE

\* isinstance(grid_params["grid_object"], ModelGrid), line 117
IsGrid(value) == value.t = "grid"

\* setup_grid(params["grid"]), lines 79 and 112-121
SetupGrid ==
    /\ ctor.pc = "setup_grid"
    /\ ctor' =
         IF "grid" \notin DOMAIN heap[P] THEN Raise("KeyError", "grid")
         ELSE LET g == heap[heap[P]["grid"].v]
                  made(k, how) ==
                      IF k \in DOMAIN g
                        THEN [ctor EXCEPT !.pc = "setup_fields", !.grid = how]
                        ELSE Raise("KeyError", k)
              IN  IF "source" \notin DOMAIN g THEN Raise("KeyError", "source")
                  ELSE IF g["source"] = Str(SourceCreate)
                    THEN made("create_grid", "created")
                  ELSE IF g["source"] = Str(SourceFile)
                    THEN made("grid_file_name", "loaded")
                  ELSE IF g["source"] = Str(SourceGridObject)
                    THEN IF "grid_object" \notin DOMAIN g
                           THEN Raise("KeyError", "grid_object")
                         ELSE IF IsGrid(g["grid_object"])
                           THEN made("grid_object", "object")
                         ELSE Raise("ValueError", "grid_object")
                  ELSE Goto("setup_fields")
    /\ UNCHANGED <<runvars, mergevars, lemvars, fieldvars>>

\* self.setup_fields(), line 80: a hook of the subclass
SetupFields ==
    /\ ctor.pc = "setup_fields"
    /\ ctor' = Goto("setup_for_output")
    /\ UNCHANGED <<runvars, mergevars, lemvars, fieldvars>>

\* setup_for_output(params["output"]), lines 81 and 123-133
SetupForOutput ==
    /\ ctor.pc = "setup_for_output"
    /\ IF "output" \notin DOMAIN heap[P]
         THEN /\ ctor' = Raise("KeyError", "output")
              /\ UNCHANGED <<plot_interval, next_plot, save_interval, next_save>>
         ELSE LET o == heap[P]["output"].v
              IN  IF FirstMissing(heap, o, OutputKeys) # ""
                    THEN /\ ctor' = Raise("KeyError",
                                          FirstMissing(heap, o, OutputKeys))
                         /\ UNCHANGED <<plot_interval, next_plot,
                                        save_interval, next_save>>
                    ELSE /\ ctor' = Goto("instantiate_components")
                         /\ plot_interval' = heap[o]["plot_interval"].v
                         /\ next_plot' = heap[o]["plot_interval"].v
                         /\ save_interval' = heap[o]["save_interval"].v
                         /\ next_save' = heap[o]["save_interval"].v
    /\ UNCHANGED <<pc, current_time, run_duration, dt, stop_time, next_pause,
                   update_to_time, udt, remaining_time, ret, has_next_report,
                   next_report, report_interval, save_num, log, upd, entry,
                   head>>
    /\ UNCHANGED <<mergevars, lemvars, fieldvars>>

\* self.instantiate_components(params), line 82: a hook of the subclass
InstantiateComponents ==
    /\ ctor.pc = "instantiate_components"
    /\ ctor' = Goto("setup_run_control")
    /\ UNCHANGED <<runvars, mergevars, lemvars, fieldvars>>

\* setup_run_control(params), lines 83 and 135-139
SetupRunControl ==
    /\ ctor.pc = "setup_run_control"
    /\ IF FirstMissing(heap, P, RunControlKeys) # ""
         THEN /\ ctor' = Raise("KeyError", FirstMissing(heap, P, RunControlKeys))
              /\ UNCHANGED <<run_duration, dt, current_time>>
         ELSE /\ ctor' = Goto("bigantr_init")
              /\ run_duration' = heap[P]["run_duration"].v
              /\ dt' = heap[P]["dt"].v
              /\ current_time' = heap[P]["start_time"].v
    /\ UNCHANGED <<pc, stop_time, next_pause, update_to_time, udt,
                   remaining_time, ret, plot_interval, next_plot,
                   save_interval, next_save, has_next_report, next_report,
                   report_interval, save_num, log, upd, entry, head>>
    /\ UNCHANGED <<mergevars, lemvars, fieldvars>>

\* the sections BigantrLEM.__init__ reads after super().__init__, and the
\* keys it reads in each, in order (lines 74, 89, 92-99, 104-116)
BigantrReads ==
    <<[section |-> "initial_conditions", keys |-> << >>],
      [section |-> "baselevel", keys |-> <<"uplift_rate">>],
      [section |-> "flow_routing", keys |-> FlowKeys],
      [section |-> "fluvial", keys |-> FluvialKeys]>>

\* the key whose read fails in the sections from the i-th on, "" when none
RECURSIVE FailingRead(_, _)
FailingRead(h, i) ==
    IF i > Len(BigantrReads) THEN ""
    ELSE LET rd == BigantrReads[i]
         IN  IF rd.section \notin DOMAIN h[P] THEN rd.section
             ELSE IF FirstMissing(h, h[P][rd.section].v, rd.keys) # ""
               THEN FirstMissing(h, h[P][rd.section].v, rd.keys)
             ELSE FailingRead(h, i + 1)

\* BigantrLEM.__init__ after super().__init__, lines 73-117; self.grid.at_node
\* (line 75) raises AttributeError when setup_grid assigned no grid
BigantrInit ==
    /\ ctor.pc = "bigantr_init"
    /\ ctor' =
         IF "initial_conditions" \notin DOMAIN heap[P]
           THEN Raise("KeyError", "initial_conditions")
         ELSE IF ctor.grid = "unset" THEN Raise("AttributeError", "grid")
         ELSE IF FailingRead(heap, 1) # ""
           THEN Raise("KeyError", FailingRead(heap, 1))
         ELSE Goto("constructed")
    /\ uplift_rate' =
         IF /\ "initial_conditions" \in DOMAIN heap[P]
            /\ ctor.grid # "unset"
            /\ FailingRead(heap, 1) \notin {"baselevel", "uplift_rate"}
           THEN heap[Pbaselevel]["uplift_rate"].v
           ELSE uplift_rate
    /\ UNCHANGED <<runvars, mergevars, lem, fieldvars>>

NextCtor ==
    \/ SetupGrid
    \/ SetupFields
    \/ SetupForOutput
    \/ InstantiateComponents
    \/ SetupRunControl
    \/ BigantrInit

SpecCtor == InitCtor /\ [][NextCtor]_vars

----------------------------------------------------------------------------
(* get_or_create_node_field(grid, name, dtype).  grid.at_node maps a field  *)
(* name to a numpy array; arrays are objects, told apart by identity.  A    *)
(* caller keeps the array it is handed and writes into it in place.         *)

FieldNames == {"topographic__elevation", "soil__depth"}
NameOrder == <<"topographic__elevation", "soil__depth">>
DTypes == {"float64", "int64"}
Values == {0, 1}

\* the arrays a grid holds when it was loaded or handed over with fields
LoadedArrays ==
    {[dtype |-> "float64", data |-> d, by |-> "loaded"] :
        d \in [1..NumNodes -> Values]}

InitField ==
    /\ InitNoRun /\ InitNoMerge
    /\ ctor = Constructed
    /\ \E S \in SUBSET FieldNames :
          LET present == SelectSeq(NameOrder, LAMBDA n : n \in S)
          IN  /\ at_node = [n \in S |->
                              CHOOSE i \in 1..Len(present) : present[i] = n]
              /\ arrays \in [1..Len(present) -> LoadedArrays]
    /\ handle = [n \in FieldNames |-> 0]
    /\ got = NoGet

\* line 48 when every lookup raises KeyError
HasFieldNever(at, name) == FALSE

\* line 48: grid.at_node[name] raises KeyError when the grid lacks the field
HasField(at, name) == name \in DOMAIN at

\* an array that was allocated and not cleared
Uninitialised(n) == [i \in 1..n |-> 1]

\* the contents of the array add_zeros allocates: one zero per node
Zeros(n) == [i \in 1..n |-> 0]

\* grid.add_zeros(name, at="node", dtype=dtype, clobber=True): a new array of
\* zeros becomes the field, in place of one of that name if there is one
add_zeros(at, arrs, name, dtype) ==
    LET id == Len(arrs) + 1
    IN  [at_node |-> [n \in DOMAIN at \cup {name} |->
                         IF n = name THEN id ELSE at[n]],
         arrays |-> Append(arrs, [dtype |-> dtype, data |-> Zeros(NumNodes),
                                  by |-> "add_zeros"]),
         ret |-> id]

get_or_create_node_field(at, arrs, name, dtype) ==
    IF HasField(at, name)
      THEN [at_node |-> at, arrays |-> arrs, ret |-> at[name]]
      ELSE add_zeros(at, arrs, name, dtype)

\* a call get_or_create_node_field(grid, name, dtype); the caller keeps the
\* array returned
GetOrCreate ==
    /\ \E name \in FieldNames, dtype \in DTypes :
          LET r == get_or_create_node_field(at_node, arrays, name, dtype)
          IN  /\ at_node' = r.at_node
              /\ arrays' = r.arrays
              /\ handle' = [handle EXCEPT ![name] = r.ret]
              /\ got' = [done |-> TRUE, name |-> name, ret |-> r.ret,
                         held |-> handle[name], at |-> at_node,
                         arrays |-> arrays]
    /\ UNCHANGED <<runvars, mergevars, ctorvars, lemvars>>

\* the caller writes a value into an array it holds
WriteNode ==
    /\ \E name \in FieldNames, i \in 1..NumNodes, value \in Values :
          /\ handle[name] # 0
          /\ arrays' = [arrays EXCEPT ![handle[name]].data[i] = value]
    /\ got' = [got EXCEPT !.done = FALSE]
    /\ UNCHANGED <<at_node, handle>>
    /\ UNCHANGED <<runvars, mergevars, ctorvars, lemvars>>

NextField ==
    \/ GetOrCreate
    \/ WriteNode

SpecField == InitField /\ [][NextField]_vars

----------------------------------------------------------------------------
(* Claims about the run controller, checked under Spec *)

InRun == ret = "run"

Firings(kind) == SelectSeq(log, LAMBDA e : e[1] = kind)

FiresOnGrid(kind, interval) ==
    (run_duration % interval = 0) =>
        /\ Len(Firings(kind)) <= run_duration \div interval
        /\ \A j \in 1..Len(Firings(kind)) : Firings(kind)[j][2] % interval = 0
        /\ pc = "done" => Len(Firings(kind)) = run_duration \div interval

\* C1: in a run entered at time 0 whose duration is a multiple of a trigger's
\* interval I, that trigger fires D / I times in all, never more, and every
\* firing happens at a current_time that is a multiple of I.
C1_FiringsOnGrid ==
    (InRun /\ entry = 0 /\ has_next_report) =>
        /\ FiresOnGrid("report", report_interval)
        /\ FiresOnGrid("plot", plot_interval)
        /\ FiresOnGrid("save", save_interval)

\* C2: run terminates with current_time >= stop_time: no pass of the outer
\* loop comes back to the loop test below the stop time with the clock and
\* the three schedules exactly as the pass found them (the loop reads nothing
\* else, so such a pass repeats for ever).
C2_RunTerminates ==
    /\ (pc = "done") => current_time >= stop_time
    /\ ~(pc = "while" /\ current_time < stop_time /\ head = SchedulerState)

\* C3: during run, current_time never exceeds stop_time.
C3_NeverPastStop == InRun => current_time <= stop_time

\* C4: every update(step) made by update_until has 0 < step <= min(dt,
\* update_to_time - current_time), and when update_until, entered below
\* update_to_time, leaves its loop, current_time equals update_to_time.
C4_ClampedSteps ==
    /\ upd.called =>
          /\ 0 < upd.step
          /\ upd.step <= Min(upd.dt, upd.dist)
    /\ (pc = "until" /\ ~(remaining_time > 0) /\ upd.from < update_to_time)
          => current_time = update_to_time

\* C5: whenever a trigger fires in run, its next-occurrence time becomes its
\* previous value plus its interval, for each of report, plot and save.
C5_FiringAdvancesSchedule ==
    [][/\ (pc = "report" /\ Due(next_report) /\ pc' = "plot")
            => next_report' = next_report + report_interval
       /\ (pc = "plot" /\ Due(next_plot) /\ pc' = "save")
            => next_plot' = next_plot + plot_interval
       /\ (pc = "save" /\ Due(next_save) /\ pc' = "while")
            => next_save' = next_save + save_interval]_vars

----------------------------------------------------------------------------
(* Claims about the parameter merger, checked under SpecMerge *)

RECURSIVE Deep(_, _)
\* what a value holds, references followed: <<path, value>> for the value
\* itself (a dict counts as the value Dict) and for everything below it
Deep(h, value) ==
    IF IsDict(value)
      THEN {<<(<< >>), [t |-> "dict", v |-> 0]>>}
           \cup UNION {{<<(<<k>>) \o p[1], p[2]>> :
                           p \in Deep(h, h[value.v][k])} :
                         k \in DOMAIN h[value.v]}
      ELSE {<<(<< >>), value>>}

\* the leaves below dict r: <<path, value>> for every value that is no dict
Leaves(h, r) == {p \in Deep(h, Ref(r)) : p[2].t # "dict"}

\* C6: every leaf the user tree had before a merge call is there, at the same
\* path with the same value, after the call.
C6_NonDestructive == call.done => Leaves(pre, U) \subseteq Leaves(heap, U)

\* a merge call that met a key the user already had, with another default
C6_Witness ==
    /\ call.done
    /\ \E k \in DOMAIN pre[U] \cap DOMAIN pre[call.d] :
          ~IsDict(pre[U][k]) /\ pre[U][k] # pre[call.d][k]
    /\ \E l \in Leaves(pre, U) : Len(l[1]) = 3
    /\ Leaves(heap, U) # Leaves(pre, U)

\* C7: a grid section the user had before a merge call is exactly the same
\* dict after it, whatever the defaults hold.
C7_GridAtomic ==
    (call.done /\ "grid" \in DOMAIN pre[U]) =>
        /\ "grid" \in DOMAIN heap[U]
        /\ Deep(heap, heap[U]["grid"]) = Deep(pre, pre[U]["grid"])

\* a merge call with a grid section on both sides, the default one holding a
\* key the user's does not
C7_Witness ==
    /\ call.done
    /\ "grid" \in DOMAIN pre[U]
    /\ "grid" \in DOMAIN pre[call.d]
    /\ IsDict(pre[U]["grid"])
    /\ IsDict(pre[call.d]["grid"])
    /\ DOMAIN pre[pre[call.d]["grid"].v] \ DOMAIN pre[pre[U]["grid"].v] # {}

RECURSIVE Filled(_, _, _, _)
\* every key of dict d is a key of dict u afterwards, one u lacked holds the
\* default value, and so on below every key but "grid" that held a dict in
\* both
Filled(hpre, hpost, u, d) ==
    \A k \in DOMAIN hpre[d] :
        /\ k \in DOMAIN hpost[u]
        /\ k \notin DOMAIN hpre[u] =>
              Deep(hpost, hpost[u][k]) = Deep(hpre, hpre[d][k])
        /\ (/\ k \in DOMAIN hpre[u]
            /\ k # "grid"
            /\ IsDict(hpre[u][k])
            /\ IsDict(hpre[d][k])) =>
              Filled(hpre, hpost, hpre[u][k].v, hpre[d][k].v)

\* C8: after a merge call every key of the defaults is a key of the user
\* dict, a key the user lacked holds the default value, and the same holds
\* below every key other than "grid" that held a dict on both sides.
C8_DefaultsFilled == call.done => Filled(pre, heap, U, call.d)

RECURSIVE Covers(_, _, _)
\* dict u has every key of dict d, at every level
Covers(h, u, d) ==
    \A k \in DOMAIN h[d] :
        /\ k \in DOMAIN h[u]
        /\ (IsDict(h[u][k]) /\ IsDict(h[d][k])) => Covers(h, h[u][k].v, h[d][k].v)

\* C9: a merge into a user tree that already has every default key at every
\* level leaves the user tree as it was, and so does a merge of the defaults
\* that were merged by the call just before.
C9_Idempotent ==
    (call.done /\ (Covers(pre, U, call.d) \/ call.prev = call.d)) =>
        Deep(heap, Ref(U)) = Deep(pre, Ref(U))

\* a second merge of the same defaults, after a first one that added keys at
\* two levels
C9_Witness ==
    /\ call.done
    /\ call.prev = call.d
    /\ call.d = D1
    /\ "d" \in DOMAIN heap[D1] /\ IsDict(heap[D1]["d"])
    /\ "d" \in DOMAIN heap[U] /\ IsDict(heap[U]["d"])
    /\ heap[U]["d"].v = Ud
    /\ "db" \in DOMAIN heap[Ud]
    /\ heap[Ud]["db"] = Num(6)
    /\ "a" \in DOMAIN heap[U] /\ heap[U]["a"] = Num(2)

----------------------------------------------------------------------------
(* Claims about construction, checked under SpecCtor *)

CtorFailed == ctor.pc \in {"KeyError", "ValueError", "AttributeError"}

\* C10: construction from the empty configuration (params = {}) does not end
\* in a lookup failure: every section and key it reads is found.
C10_EmptyConfigConstructs == (heap[P] = Empty) => ~CtorFailed

\* the grid section names the source "grid_object" and supplies a value
\* that is no grid
NonGridObject ==
    /\ "grid" \in DOMAIN heap[P]
    /\ "source" \in DOMAIN heap[Pgrid]
    /\ heap[Pgrid]["source"] = Str(SourceGridObject)
    /\ "grid_object" \in DOMAIN heap[Pgrid]
    /\ heap[Pgrid]["grid_object"].t # "grid"

\* no attribute that setup_for_output or setup_run_control assigns exists,
\* and no update step was made
NothingBuilt ==
    /\ plot_interval = 0 /\ next_plot = 0
    /\ save_interval = 0 /\ next_save = 0
    /\ run_duration = 0 /\ dt = 0 /\ current_time = 0
    /\ pc = "idle" /\ ~upd.called

\* C11: with source "grid_object" and a value that is no grid, construction
\* ends in setup_grid with ValueError: self.grid is never assigned, none of
\* setup_fields, setup_for_output, instantiate_components and
\* setup_run_control runs, and no update step is made.
C11_NonGridRejected ==
    NonGridObject =>
        /\ ctor.pc \in {"setup_grid", "ValueError"}
        /\ ctor.grid = "unset"
        /\ NothingBuilt

\* setup_grid has raised ValueError on a grid_object that is no grid
C11_Witness ==
    /\ NonGridObject
    /\ ctor.pc = "ValueError"
    /\ ctor.key = "grid_object"
    /\ "output" \in DOMAIN heap[P]

\* the grid section names a source other than "create", "file" and
\* "grid_object"
UnknownSource ==
    /\ "grid" \in DOMAIN heap[P]
    /\ "source" \in DOMAIN heap[Pgrid]
    /\ heap[Pgrid]["source"] = Str(SourceOther)

\* C12: with an unrecognised source setup_grid ends in an error; it never
\* returns normally with self.grid left unset.
C12_UnknownSourceRejected ==
    /\ UnknownSource => ctor.pc \in {"setup_grid", "ValueError"}
    /\ (ctor.pc # "setup_grid" /\ ~CtorFailed) => ctor.grid # "unset"

----------------------------------------------------------------------------
(* Further claims about the parameter merger, checked under SpecMerge *)

\* the keys other than "grid" under which the user dict holds a dict and the
\* defaults hold a value that is no dict
DictOverScalar(h, u, d) ==
    {k \in DOMAIN h[u] \cap DOMAIN h[d] :
        k # "grid" /\ IsDict(h[u][k]) /\ ~IsDict(h[d][k])}

\* C17: a merge call that meets a key other than "grid" under which the user
\* holds a dict and the defaults hold no dict completes without error and
\* leaves the user's value under that key as it was.
C17_DictOverScalarKept ==
    call.done =>
        \A k \in DictOverScalar(pre, U, call.d) :
            /\ ~call.err
            /\ k \in DOMAIN heap[U]
            /\ Deep(heap, heap[U][k]) = Deep(pre, pre[U][k])

\* C19: no merge call of any sequence changes a defaults dict, at any depth,
\* whether or not it is the one the call was given.
C19_DefaultsUntouched ==
    call.done => \A d \in Defaults : Deep(heap, Ref(d)) = Deep(pre, Ref(d))

----------------------------------------------------------------------------
(* Further claims about the run controller, checked under Spec *)

\* the hooks one pass of run's loop owes once it has come to position at:
\* those whose trigger time, as the pass found it (head), is reached by
\* current_time, the clock not moving after update_until returned
Owed(at) ==
    (IF current_time >= head[4] THEN <<"report">> ELSE << >>)
    \o (IF at \in {"save", "while"} /\ current_time >= head[2]
          THEN <<"plot">> ELSE << >>)
    \o (IF at = "while" /\ current_time >= head[3]
          THEN <<"save">> ELSE << >>)

\* the last n hook calls
LastCalls(n) == SubSeq(log, Len(log) - n + 1, Len(log))

\* C13: the triggers that are due when update_until returns to run fire in
\* the order report, plot, save, at that same current_time, within the same
\* pass of the loop, before the loop test and so before any further update.
C13_ReportPlotSave ==
    (InRun /\ pc \in {"plot", "save", "while"} /\ head # NoHead) =>
        /\ Len(log) >= Len(Owed(pc))
        /\ LastCalls(Len(Owed(pc))) =
              [j \in 1..Len(Owed(pc)) |-> <<Owed(pc)[j], current_time>>]

\* a pass in which all three triggers were due has come back to the loop test
C13_Witness ==
    /\ InRun /\ pc = "while" /\ head # NoHead
    /\ head[1] < current_time
    /\ Owed(pc) = <<"report", "plot", "save">>
    /\ LastCalls(3) = <<(<<"report", current_time>>), (<<"plot", current_time>>),
                        (<<"save", current_time>>)>>

\* the triggers setup_for_output schedules, and their intervals
Scheduled == {"plot", "save"}

IntervalOf(kind) == IF kind = "plot" THEN plot_interval ELSE save_interval

\* C15: in a run entered at the clock's start time, zero or not, no trigger
\* that setup_for_output scheduled (next_plot = plot_interval, next_save =
\* save_interval) fires while current_time still equals the start time, and
\* the first firing of each happens at the start time plus its interval.
C15_FirstFiringAfterStart ==
    (InRun /\ entry \in StartTimes) =>
        \A kind \in Scheduled :
            /\ \A j \in 1..Len(Firings(kind)) : Firings(kind)[j][2] # entry
            /\ Firings(kind) # << >> =>
                  Firings(kind)[1][2] = entry + IntervalOf(kind)

\* the statements of the last update(step) that update_until made were, in
\* this order and once each, the uplift by uplift_rate * step, the router
\* step, the eroder step with step, and the clock advance with step; every
\* router step made so far was used by the eroder step after it, and no
\* eroder step ran before its router step
InOrder ==
    /\ lem.trace = <<[op |-> "uplift", arg |-> Round(uplift_rate * upd.step)],
                     [op |-> "route", arg |-> 0],
                     [op |-> "erode", arg |-> upd.step],
                     [op |-> "clock", arg |-> upd.step]>>
    /\ lem.pending = 0
    /\ ~lem.stale

\* C16 as stated: every update(dt) performs the four statements in order,
\* once each, router and eroder steps pair up one to one with the router's
\* first, and the clock ends at exactly current_time + dt.
C16_UpdateOrderExact ==
    upd.called => (InOrder /\ current_time = lem.was + upd.step)

\* C16 amended: the same, the clock ending at the floating-point sum of
\* current_time and dt.
C16_UpdateOrder ==
    upd.called => (InOrder /\ current_time = Round(lem.was + upd.step))

\* an update with a non-zero uplift whose step was clamped below dt
C16_Witness ==
    /\ upd.called
    /\ InRun
    /\ uplift_rate > 0
    /\ upd.step < upd.dt
    /\ Len(lem.trace) = 4
    /\ lem.trace[1].arg = uplift_rate * upd.step
    /\ current_time > lem.was

\* an update(step) is made in this step of the model
Updates == pc = "until" /\ remaining_time > 0 /\ upd'.called

\* update_until was entered with a target at or below current_time, and has
\* made no update and left current_time as it was
NothingToDo ==
    (upd.dt # 0 /\ update_to_time <= upd.from) =>
        (~upd.called /\ current_time = upd.from)

\* C18 as stated: current_time never decreases and changes only inside
\* update; every update(dt) increases it by exactly dt; update_until with a
\* target at or below current_time makes no update and leaves it unchanged.
C18_ClockExact ==
    [][/\ current_time' >= current_time
       /\ current_time' # current_time => Updates
       /\ Updates => current_time' = current_time + upd'.step
       /\ NothingToDo']_vars

\* C18 amended: the same, every update(dt) setting current_time to the
\* floating-point sum of current_time and dt, which is current_time + dt
\* whenever that sum is representable.
C18_Clock ==
    [][/\ current_time' >= current_time
       /\ current_time' # current_time => Updates
       /\ Updates => current_time' = Round(current_time + upd'.step)
       /\ NothingToDo']_vars

\* an update has just set the clock to a sum that had to be rounded
C18_Witness ==
    /\ upd.called
    /\ current_time # lem.was + upd.step
    /\ current_time = Round(lem.was + upd.step)
    /\ current_time > lem.was

----------------------------------------------------------------------------
(* Claims about get_or_create_node_field, checked under SpecField *)

\* C14: a call for a name the caller already holds an array for, from an
\* earlier call on the same grid, returns that same array, allocates no
\* array, and leaves every array's contents, the values written since the
\* earlier call included, as they were.
C14_Idempotent ==
    (got.done /\ got.held # 0) =>
        /\ got.ret = got.held
        /\ Len(arrays) = Len(got.arrays)
        /\ arrays = got.arrays
        /\ at_node = got.at

\* a second call for a field the first call created, after a non-zero value
\* was written into the array
C14_Witness ==
    /\ got.done
    /\ got.held # 0
    /\ arrays[got.ret].by = "add_zeros"
    /\ \E i \in 1..NumNodes : arrays[got.ret].data[i] # 0

\* C20: a call for a name the grid has no node field for returns an array
\* with one entry per node, every entry zero; afterwards the grid's field of
\* that name is that array, and every other field is the array it was, with
\* the contents it had.
C20_CreatesZeros ==
    (got.done /\ got.name \notin DOMAIN got.at) =>
        /\ got.ret \in 1..Len(arrays)
        /\ got.ret \notin 1..Len(got.arrays)
        /\ DOMAIN arrays[got.ret].data = 1..NumNodes
        /\ \A i \in 1..NumNodes : arrays[got.ret].data[i] = 0
        /\ DOMAIN at_node = DOMAIN got.at \cup {got.name}
        /\ at_node[got.name] = got.ret
        /\ \A n \in DOMAIN got.at :
              /\ at_node[n] = got.at[n]
              /\ arrays[at_node[n]] = got.arrays[got.at[n]]

\* a field was created on a grid that had another field, holding a non-zero
\* value
C20_Witness ==
    /\ got.done
    /\ got.name \notin DOMAIN got.at
    /\ \E n \in DOMAIN got.at, i \in 1..NumNodes :
          got.arrays[got.at[n]].data[i] # 0

====
